---------------------------- MODULE Spec2Model ----------------------------
(***************************************************************************)
(* A model of the equity research agent pipeline:                          *)
(*   data_tools.py  get_peers, fetch_market_data, _parse_ticker_info,      *)
(*                  _get_empty_ticker_data, calculate_peer_comparison      *)
(*   utils.py       get_llm                                                *)
(*   main.py        the four graph nodes, create_graph, run_analysis       *)
(*                                                                         *)
(* Numbers.  Provider values are integers counted in thousandths, the      *)
(* values of a parsed record are counted in hundredths (after round(x, 2)),*)
(* market_cap is a plain integer.  A Python value that may be None is a    *)
(* record [tag, v] with tag "none" or "num".                               *)
(***************************************************************************)
EXTENDS Integers, Sequences, FiniteSets, TLC

VARIABLES
    \* ---- get_peers on its own (SpecPeers)
    pIn,        \* the inputs of one call: ticker, LLM_MODEL, completion outcome
    pOut,       \* its outcome
    \* ---- calculate_peer_comparison on its own (SpecCompare)
    cIn,        \* the inputs: ticker and the snapshot
    cOut,       \* the report, or the exception raised
    \* ---- _parse_ticker_info on its own (SpecParse)
    iIn,        \* the inputs: ticker and the provider's record
    iOut,       \* the parsed record
    \* ---- fetch_market_data step by step (SpecFetch)
    fIn,        \* ticker, LLM_MODEL and the completion outcome of get_peers
    fpc,        \* position in fetch_market_data
    fpeers,     \* peers (line 99)
    fidx,       \* idx of the for loop (1-based)
    fresults,   \* results (line 108): symbol -> record
    finflight,  \* number of provider lookups in progress
    fret,       \* the returned snapshot
    ftrace,     \* what happened so far, in order
    \* ---- run_analysis and the graph (Spec)
    LLM_MODEL,  \* config.py's model selection
    cli,        \* position in run_analysis
    run,        \* number of runs started
    state,      \* the graph's state (AgentState channels)
    nodeSt,     \* node -> "idle" | "running" | "done" | "failed"
    nodeRead,   \* node -> the state the node was started with
    nodeRet,    \* node -> the partial update the node returned
    step,       \* superstep number of the current run
    tasks,      \* the nodes of the current superstep
    todo,       \* those of them not started yet
    order,      \* nodes of the current run in completion order
    output,     \* what run_analysis printed for the current run
    nexec,      \* node -> times the node was started in the current run
    ncalls,     \* node -> llm.invoke calls the node made in the current run
    earlier,    \* what the earlier runs printed, kinds only
    nclients,   \* LLM clients constructed since the process started
    nodeExc     \* node -> the exception the node raised in the current run

peersVars == <<pIn, pOut>>
cmpVars   == <<cIn, cOut>>
parseVars == <<iIn, iOut>>
fetchVars == <<fIn, fpc, fpeers, fidx, fresults, finflight, fret, ftrace>>
graphVars == <<LLM_MODEL, cli, run, state, nodeSt, nodeRead, nodeRet, step, tasks, todo,
              order, output, nexec, ncalls, earlier, nclients, nodeExc>>
vars      == <<peersVars, cmpVars, parseVars, fetchVars, graphVars>>

----------------------------------------------------------------------------
(* Bounds *)

\* longest literal a completion is drawn with
MaxElems == 4
\* analyses run_analysis may start
MaxRuns == 2

----------------------------------------------------------------------------
(* Python values *)

None   == [tag |-> "none", v |-> 0]
Num(x) == [tag |-> "num", v |-> x]
\* a key the provider's record does not hold
Absent == [tag |-> "absent", v |-> 0]
\* a key the provider's record holds with the value null
Null == [tag |-> "null", v |-> 0]

\* bool(v) of a number or None
Truthy(v) == v.tag = "num" /\ v.v # 0

\* a or b
PyOr(a, b) == IF Truthy(a) THEN a ELSE b

\* info.get(key)
Get(info, key) == IF info[key].tag = "num" THEN info[key] ELSE None

\* info.get(key, default): the default only when the key is absent
GetDefault(info, key, default) ==
    IF info[key].tag = "absent" THEN default
    ELSE IF info[key].tag = "num" THEN info[key] ELSE None

\* round(x, 2) of a number counted in thousandths, result in hundredths;
\* a tie goes to the even neighbour
Round2(m) ==
    LET lo == m \div 10
        r  == m % 10
    IN  IF r < 5 THEN lo
        ELSE IF r > 5 THEN lo + 1
        ELSE IF lo % 2 = 0 THEN lo ELSE lo + 1

----------------------------------------------------------------------------
(* utils.get_llm *)

Backends == {"ollama", "openai"}

\* get_llm(): TRUE when it returns a client, FALSE when it raises ValueError
GetLlmOk(model) == model \in Backends

\* the clients one call of get_llm() constructs: lines 26-35 return a new
\* ChatOllama(...) or ChatOpenAI(...) each time, nothing is kept
GetLlmBuilds(model) == IF GetLlmOk(model) THEN 1 ELSE 0

----------------------------------------------------------------------------
(* data_tools.get_peers *)

FALLBACK_PEERS == <<"SPY", "QQQ", "DIA">>

\* str(p).upper() on the texts the completions are drawn from
Upper(txt) ==
    CASE txt = "aapl"  -> "AAPL"
      [] txt = "msft"  -> "MSFT"
      [] txt = "Spy"   -> "SPY"
      [] OTHER         -> txt

\* eval(peers_str): the value of the expression, or an exception.
\*   list / tuple : a literal display of the elements a
\*   concat       : the expression  [a...] + [b...]
\*   str          : one quoted string
\*   name         : a bare identifier that is not defined (NameError)
\*   prose        : text that is no Python expression (SyntaxError)
Eval(expr) ==
    CASE expr.k = "list"   -> [ok |-> TRUE,  ty |-> "list",  elems |-> expr.a]
      [] expr.k = "tuple"  -> [ok |-> TRUE,  ty |-> "tuple", elems |-> expr.a]
      [] expr.k = "concat" -> [ok |-> TRUE,  ty |-> "list",  elems |-> expr.a \o expr.b]
      [] expr.k = "str"    -> [ok |-> TRUE,  ty |-> "str",   elems |-> expr.a]
      [] OTHER             -> [ok |-> FALSE, ty |-> "exc",   elems |-> << >>]

\* the validation without the element count
ValidPeersAnyLength(val) == val.ty = "list"

\* lines 68-72: isinstance(peers, list) and len(peers) == 3
ValidPeers(val) == val.ty = "list" /\ Len(val.elems) = 3

\* lines 60-76: the try block and its bare except.  resp.text is FALSE when
\* response.content is not a string (.strip() raises AttributeError)
ParsePeers(resp) ==
    IF ~resp.text THEN FALLBACK_PEERS
    ELSE LET val == Eval(resp.expr)
         IN  IF val.ok /\ ValidPeers(val)
             THEN [i \in 1..Len(val.elems) |-> Upper(val.elems[i].txt)]
             ELSE FALLBACK_PEERS

\* get_peers(ticker): lines 48 and 58 are outside the try block
GetPeers(model, llm) ==
    IF ~GetLlmOk(model) THEN [raised |-> "ValueError", peers |-> << >>]
    ELSE IF llm.k = "raise" THEN [raised |-> "LLMError", peers |-> << >>]
    ELSE [raised |-> "none", peers |-> ParsePeers(llm.resp)]

----------------------------------------------------------------------------
(* data_tools._parse_ticker_info and _get_empty_ticker_data *)

NoError == "no error key"

ParseTickerInfo(ticker, info) ==
    LET price      == PyOr(Get(info, "currentPrice"),
                           GetDefault(info, "regularMarketPrice", Num(0)))
        market_cap == GetDefault(info, "marketCap", Num(0))
        pe_ratio   == PyOr(Get(info, "trailingPE"), Get(info, "forwardPE"))
        peg_ratio  == Get(info, "pegRatio")
        pb_ratio   == Get(info, "priceToBook")
        R(v)       == IF Truthy(v) THEN Num(Round2(v.v)) ELSE None
    IN  [ticker     |-> ticker,
         price      |-> IF Truthy(price) THEN Num(Round2(price.v)) ELSE Num(0),
         market_cap |-> market_cap,
         pe         |-> R(pe_ratio),
         peg        |-> R(peg_ratio),
         pb         |-> R(pb_ratio),
         error      |-> NoError]

GetEmptyTickerData(ticker) ==
    [ticker     |-> ticker,
     price      |-> Num(0),
     market_cap |-> Num(0),
     pe         |-> None,
     peg        |-> None,
     pb         |-> None,
     error      |-> "Data unavailable"]

----------------------------------------------------------------------------
(* data_tools.fetch_market_data: the pieces the loop is made of *)

\* the target fetched last instead of first
AllTickersTargetLast(ticker, peers) == peers \o <<ticker>>

\* line 102
AllTickers(ticker, peers) == <<ticker>> \o peers

\* line 124: "429" in str(e) or "Too Many Requests" in str(e).  A message is
\* a sequence of words; a pattern occurs in it as a run of consecutive words
Occurs(pat, msg) ==
    \E i \in 1..(Len(msg) - Len(pat) + 1) :
        \A j \in 1..Len(pat) : msg[i + j - 1] = pat[j]

\* a check that knows the status code only
IsThrottle429Only(msg) == Occurs(<<"429">>, msg)

IsThrottle(msg) ==
    Occurs(<<"429">>, msg) \/ Occurs(<<"Too", "Many", "Requests">>, msg)

\* results[t] = value
Put(results, t, value) ==
    [x \in (DOMAIN results) \cup {t} |-> IF x = t THEN value ELSE results[x]]

\* results.get(t, _get_empty_ticker_data(t))
ResultsGet(results, t) ==
    IF t \in DOMAIN results THEN results[t] ELSE GetEmptyTickerData(t)

\* lines 140-148
Organize(ticker, peers, results) ==
    [main_ticker |-> ResultsGet(results, ticker),
     peers       |-> [p \in {peers[i] : i \in 1..Len(peers)} |-> ResultsGet(results, p)],
     peer_list   |-> peers]

\* The record one pass of the loop body leaves in results for symbol t, given
\* how the pass ended: with the info of a lookup (lines 115, 131) or without
\* (lines 135, 138)
RecordOf(t, out) ==
    IF out.ok THEN ParseTickerInfo(t, out.info) ELSE GetEmptyTickerData(t)

\* results after the first k passes of the loop over all_tickers
RECURSIVE ResultsAfter(_, _, _)
ResultsAfter(all, outs, k) ==
    IF k = 0 THEN << >>
    ELSE Put(ResultsAfter(all, outs, k - 1), all[k], RecordOf(all[k], outs[k]))

----------------------------------------------------------------------------
(* data_tools.calculate_peer_comparison *)

\* every peer counted, a None value counting as 0
PresentPeersZeroFilled(peers, key) == DOMAIN peers

\* lines 210-212: the peers (keys of the dict) whose value is not None
PresentPeers(peers, key) == {p \in DOMAIN peers : peers[p][key].tag # "none"}

RECURSIVE SumOver(_, _, _)
SumOver(peers, S, key) ==
    IF S = {} THEN 0
    ELSE LET p == CHOOSE x \in S : TRUE
         IN  peers[p][key].v + SumOver(peers, S \ {p}, key)

\* lines 214-216: sum(values) / len(values) if values else None, kept as the
\* exact fraction sum / n
PeerAvg(peers, key) ==
    LET S == PresentPeers(peers, key)
    IN  IF S # {} THEN [tag |-> "num", sum |-> SumOver(peers, S, key), n |-> Cardinality(S)]
        ELSE [tag |-> "none", sum |-> 0, n |-> 0]

\* bool(avg)
AvgTruthy(avg) == avg.tag = "num" /\ avg.sum # 0

\* the guard of lines 235, 247, 259
CompareGuard(mainv, avg) == Truthy(mainv) /\ AvgTruthy(avg)

\* a deviation of exactly 0 labelled as a premium
IsPremiumNonStrict(mainv, avg) == (mainv.v * avg.n - avg.sum) * avg.sum >= 0

\* ((main - avg) / avg) * 100 > 0, for avg = sum / n:
\* (main * n - sum) / sum has the sign of the product
IsPremium(mainv, avg) == (mainv.v * avg.n - avg.sum) * avg.sum > 0

\* the three ratios of a record
Ratios == {"pe", "peg", "pb"}

NotAvailable == [kind |-> "Data not available", main |-> 0, sum |-> 0, n |-> 0,
                 label |-> "", raised |-> "none"]

\* lines 234-268, one ratio.  Behind the guard stands the arithmetic of lines
\* 236, 248, 260: it raises TypeError on None and ZeroDivisionError when the
\* average it divides by is zero
RatioLines(mainv, avg) ==
    IF CompareGuard(mainv, avg)
    THEN IF avg.tag # "num" \/ mainv.tag # "num"
         THEN [NotAvailable EXCEPT !.kind = "numeric", !.raised = "TypeError"]
         ELSE IF avg.sum = 0
         THEN [NotAvailable EXCEPT !.kind = "numeric", !.raised = "ZeroDivisionError"]
         ELSE [kind |-> "numeric", main |-> mainv.v, sum |-> avg.sum, n |-> avg.n,
               label |-> IF IsPremium(mainv, avg) THEN "(PREMIUM)" ELSE "(DISCOUNT)",
               raised |-> "none"]
    ELSE NotAvailable

\* line 226: f"{main['market_cap']:,}" raises TypeError for None
FormatMarketCap(market_cap) ==
    IF market_cap.tag = "num" THEN [raised |-> "none", v |-> market_cap.v]
    ELSE [raised |-> "TypeError", v |-> 0]

calculate_peer_comparison(ticker, market_data) ==
    LET main  == market_data.main_ticker
        peers == market_data.peers
        cap   == FormatMarketCap(main.market_cap)
        pe    == RatioLines(main.pe,  PeerAvg(peers, "pe"))
        peg   == RatioLines(main.peg, PeerAvg(peers, "peg"))
        pb    == RatioLines(main.pb,  PeerAvg(peers, "pb"))
        exc   == IF cap.raised # "none" THEN cap.raised
                 ELSE IF pe.raised # "none" THEN pe.raised
                 ELSE IF peg.raised # "none" THEN peg.raised
                 ELSE pb.raised
    IN  [raised     |-> exc,
         ticker     |-> ticker,
         price      |-> main.price.v,
         market_cap |-> cap.v,
         peer_list  |-> market_data.peer_list,
         pe         |-> pe,
         peg        |-> peg,
         pb         |-> pb]

----------------------------------------------------------------------------
(* Input domains *)

Models == {"ollama", "openai", "gpt"}

\* elements of a literal: two quoted strings and an integer
Elems == {[ty |-> "str", txt |-> "msft"], [ty |-> "str", txt |-> "Spy"],
          [ty |-> "int", txt |-> "7"]}

SeqsUpTo(n) == UNION {[1..k -> Elems] : k \in 0..n}

Prose == [k |-> "prose", a |-> << >>, b |-> << >>]

Exprs ==
    {[k |-> kind, a |-> s, b |-> << >>] : kind \in {"list", "tuple"}, s \in SeqsUpTo(MaxElems)}
    \cup {[k |-> "concat", a |-> s, b |-> t] : s \in SeqsUpTo(2), t \in SeqsUpTo(2)}
    \cup {[k |-> "str", a |-> <<e>>, b |-> << >>] : e \in Elems}
    \cup {[k |-> "name", a |-> << >>, b |-> << >>], Prose}

\* response.content: a text holding an expression, or no string at all
Responses == {[text |-> TRUE, expr |-> e] : e \in Exprs} \cup {[text |-> FALSE, expr |-> Prose]}

\* llm.invoke(...): it returns a response or raises
LlmRaise == [k |-> "raise", resp |-> [text |-> FALSE, expr |-> Prose]]
LlmOutcomes == {[k |-> "ok", resp |-> r] : r \in Responses} \cup {LlmRaise}

\* a raw provider record
Info(cp, rmp, mc, tpe, fpe, peg, pb) ==
    [currentPrice |-> cp, regularMarketPrice |-> rmp, marketCap |-> mc,
     trailingPE |-> tpe, forwardPE |-> fpe, pegRatio |-> peg, priceToBook |-> pb]

PeerInfos ==
    {Info(Num(350000), Absent, Num(2600), Num(35000), Absent, Num(2800), Num(12000)),
     Info(Num(140000), Absent, Num(1800), Num(25000), Num(22000), Num(1800), Num(5000)),
     Info(Absent, Null, Absent, Null, Absent, Absent, Null),
     Info(Num(320004), Absent, Null, Num(-25000), Absent, Num(4), Num(0)),
     Info(Absent, Num(99999), Num(900), Num(0), Num(28006), Null, Num(-5000))}

MainInfos ==
    {Info(Num(150000), Absent, mc, Num(30000), Absent, Num(2500), Num(40000)) :
        mc \in {Absent, Null, Num(2500)}}
    \cup
    {Info(Null, Null, Num(2500), Num(0), Absent, Num(4), Null),
     Info(Absent, Num(150000), Num(2500), Absent, Num(-30000), Absent, Num(5000))}

\* how one pass of the fetch loop ended: with an info, or without
Failed == [ok |-> FALSE, info |-> Info(Absent, Absent, Absent, Absent, Absent, Absent, Absent)]
OutcomesOf(infos) == {[ok |-> TRUE, info |-> i] : i \in infos} \cup {Failed}

Tickers == {"AAPL", "SPY"}

\* peer lists get_peers can return: three distinct symbols, the fallback, one
\* that names the target, one with a symbol twice
PeerLists == {<<"MSFT", "GOOGL", "META">>, FALLBACK_PEERS,
              <<"MSFT", "AAPL", "META">>, <<"MSFT", "MSFT", "META">>}

----------------------------------------------------------------------------
(* The variables of the other components, while one component runs alone *)

NotCalled == [called |-> FALSE]

IdlePeers == pIn = NotCalled /\ pOut = NotCalled
IdleCompare == cIn = NotCalled /\ cOut = NotCalled
IdleParse == iIn = NotCalled /\ iOut = NotCalled
IdleFetch ==
    /\ fIn = NotCalled /\ fpc = "idle" /\ fpeers = << >> /\ fidx = 0
    /\ fresults = << >> /\ finflight = 0 /\ fret = NotCalled
    /\ ftrace = << >>
IdleGraph ==
    /\ LLM_MODEL = "ollama" /\ cli = "idle" /\ run = 0 /\ state = NotCalled
    /\ nodeSt = << >> /\ nodeRead = << >> /\ nodeRet = << >> /\ step = 0
    /\ tasks = {} /\ todo = {} /\ order = << >> /\ output = << >>
    /\ nexec = << >> /\ ncalls = << >> /\ earlier = << >> /\ nclients = 0
    /\ nodeExc = << >>

----------------------------------------------------------------------------
(* SpecPeers: one call of get_peers on every completion outcome *)

PeersInit ==
    /\ pIn \in [model : Models, llm : LlmOutcomes]
    /\ pOut = NotCalled
    /\ IdleCompare /\ IdleParse /\ IdleFetch /\ IdleGraph

PeersCall ==
    /\ pOut = NotCalled
    /\ pOut' = [called |-> TRUE, result |-> GetPeers(pIn.model, pIn.llm)]
    /\ UNCHANGED <<pIn, cmpVars, parseVars, fetchVars, graphVars>>

PeersNext == PeersCall

SpecPeers == PeersInit /\ [][PeersNext]_vars

----------------------------------------------------------------------------
(* SpecCompare: one call of calculate_peer_comparison on every snapshot      *)
(* fetch_market_data builds from the provider records above                   *)

Snapshots ==
    {Organize(t, peers, ResultsAfter(AllTickers(t, peers), outs, 4)) :
        t \in {"AAPL"}, peers \in PeerLists,
        outs \in {o \in [1..4 -> OutcomesOf(MainInfos \cup PeerInfos)] :
                    /\ o[1] \in OutcomesOf(MainInfos)
                    /\ \A i \in 2..4 : o[i] \in OutcomesOf(PeerInfos)}}

CompareInit ==
    /\ cIn \in {[called |-> FALSE, ticker |-> "AAPL", market_data |-> s] : s \in Snapshots}
    /\ cOut = NotCalled
    /\ IdlePeers /\ IdleParse /\ IdleFetch /\ IdleGraph

CompareCall ==
    /\ cOut = NotCalled
    /\ cOut' = [called |-> TRUE,
                report |-> calculate_peer_comparison(cIn.ticker, cIn.market_data),
                avg    |-> [k \in Ratios |-> PeerAvg(cIn.market_data.peers, k)]]
    /\ UNCHANGED <<cIn, peersVars, parseVars, fetchVars, graphVars>>

CompareNext == CompareCall

SpecCompare == CompareInit /\ [][CompareNext]_vars

----------------------------------------------------------------------------
(* SpecParse: one call of _parse_ticker_info on every provider record whose  *)
(* keys are missing, null, zero, tiny, negative or ordinary                  *)

ParseInfos ==
    {Info(cp, Absent, mc, tpe, fpe, peg, pb) :
        cp  \in {Null, Num(150004)},
        mc  \in {Absent, Null, Num(2500)},
        tpe \in {Absent, Null, Num(0), Num(4), Num(30000), Num(-25000)},
        fpe \in {Absent, Null, Num(0), Num(28006)},
        peg \in {Absent, Null, Num(0), Num(2500)},
        pb  \in {Absent, Null, Num(0), Num(-5000)}}

ParseInit ==
    /\ iIn \in [ticker : {"AAPL"}, info : ParseInfos]
    /\ iOut = NotCalled
    /\ IdlePeers /\ IdleCompare /\ IdleFetch /\ IdleGraph

ParseCall ==
    /\ iOut = NotCalled
    /\ iOut' = [called |-> TRUE, record |-> ParseTickerInfo(iIn.ticker, iIn.info)]
    /\ UNCHANGED <<iIn, peersVars, cmpVars, fetchVars, graphVars>>

ParseNext == ParseCall

SpecParse == ParseInit /\ [][ParseNext]_vars

----------------------------------------------------------------------------
(* SpecFetch: fetch_market_data, one step per call, wait and lookup outcome *)

\* completions get_peers is given here: a list of 3, a list of 3 naming a
\* symbol twice, a list of 2, prose, and the call failing
FetchLlmOutcomes ==
    {LlmRaise,
     [k |-> "ok", resp |-> [text |-> TRUE, expr |-> Prose]]}
    \cup
    {[k |-> "ok", resp |-> [text |-> TRUE, expr |-> [k |-> "list", a |-> s, b |-> << >>]]] :
        s \in {<<[ty |-> "str", txt |-> "msft"], [ty |-> "str", txt |-> "Spy"], [ty |-> "int", txt |-> "7"]>>,
               <<[ty |-> "str", txt |-> "msft"], [ty |-> "str", txt |-> "msft"], [ty |-> "str", txt |-> "Spy"]>>,
               <<[ty |-> "str", txt |-> "msft"], [ty |-> "str", txt |-> "Spy"]>>}}

\* provider records a lookup returns here
FetchInfos ==
    {Info(Num(150000), Absent, Num(2500), Num(30000), Absent, Num(2500), Num(40000)),
     Info(Absent, Null, Absent, Num(0), Num(28006), Null, Absent)}

NoInfo == Info(Absent, Absent, Absent, Absent, Absent, Absent, Absent)

\* str(e) of the exceptions a lookup raises here
ThrottleMsgs == {<<"HTTP", "Error", "429">>, <<"Too", "Many", "Requests">>}
OtherMsgs    == {<<"Too", "Many", "Redirects">>}

\* an entry of ftrace
Event(ev, i, sym, info, msg) == [ev |-> ev, i |-> i, sym |-> sym, info |-> info, msg |-> msg]

all_tickers == AllTickers(fIn.ticker, fpeers)

\* line 119: idx < len(all_tickers) - 1, for the 1-based position
PaceAfter(idx, n) == idx < n

FetchInit ==
    /\ fIn \in [ticker : Tickers, model : {"ollama", "gpt"}, llm : FetchLlmOutcomes]
    /\ fpc = "start" /\ fpeers = << >> /\ fidx = 0
    /\ fresults = << >> /\ finflight = 0 /\ fret = NotCalled /\ ftrace = << >>
    /\ IdlePeers /\ IdleCompare /\ IdleParse /\ IdleGraph

\* line 99
FetchGetPeers ==
    /\ fpc = "start"
    /\ LET r == GetPeers(fIn.model, fIn.llm)
       IN  IF r.raised # "none"
           THEN /\ fpc' = "raised"
                /\ ftrace' = Append(ftrace, Event("get_peers raised", 0, fIn.ticker, NoInfo, <<r.raised>>))
                /\ UNCHANGED <<fpeers, fidx>>
           ELSE /\ fpc' = "lookup"
                /\ fpeers' = r.peers
                /\ fidx' = 1
                /\ ftrace' = Append(ftrace, Event("get_peers", 0, fIn.ticker, NoInfo, << >>))
    /\ UNCHANGED <<fIn, fresults, finflight, fret, peersVars, cmpVars,
                   parseVars, graphVars>>

\* lines 113-114: the lookup of all_tickers[idx] starts
FetchStartLookup ==
    /\ fpc = "lookup" /\ fidx <= Len(all_tickers)
    /\ finflight' = finflight + 1
    /\ fpc' = "in lookup"
    /\ ftrace' = Append(ftrace, Event("lookup", fidx, all_tickers[fidx], NoInfo, << >>))
    /\ UNCHANGED <<fIn, fpeers, fidx, fresults, fret, peersVars, cmpVars,
                   parseVars, graphVars>>

\* lines 114-119: the lookup returns info and the record is stored
FetchLookupOk ==
    /\ fpc = "in lookup"
    /\ \E info \in FetchInfos :
        LET t == all_tickers[fidx]
        IN  /\ fresults' = Put(fresults, t, ParseTickerInfo(t, info))
            /\ ftrace' = Append(ftrace, Event("ok", fidx, t, info, << >>))
    /\ finflight' = finflight - 1
    /\ IF PaceAfter(fidx, Len(all_tickers))
       THEN fpc' = "pace" /\ fidx' = fidx
       ELSE fpc' = "lookup" /\ fidx' = fidx + 1
    /\ UNCHANGED <<fIn, fpeers, fret, peersVars, cmpVars,
                   parseVars, graphVars>>

\* lines 120-122: time.sleep(15)
FetchPace ==
    /\ fpc = "pace"
    /\ ftrace' = Append(ftrace, Event("sleep 15", fidx, all_tickers[fidx], NoInfo, << >>))
    /\ fpc' = "lookup"
    /\ fidx' = fidx + 1
    /\ UNCHANGED <<fIn, fpeers, fresults, finflight, fret, peersVars, cmpVars,
                   parseVars, graphVars>>

\* lines 123-124, 136-138: the lookup raises an Exception; one that is not
\* taken for throttling leaves the empty record
FetchLookupRaise ==
    /\ fpc = "in lookup"
    /\ finflight' = finflight - 1
    /\ \E msg \in ThrottleMsgs \cup OtherMsgs :
        LET t == all_tickers[fidx]
        IN  IF IsThrottle(msg)
            THEN /\ fpc' = "backoff"
                 /\ ftrace' = Append(ftrace, Event("throttled", fidx, t, NoInfo, msg))
                 /\ UNCHANGED <<fresults, fidx>>
            ELSE /\ fpc' = "lookup"
                 /\ fidx' = fidx + 1
                 /\ fresults' = Put(fresults, t, GetEmptyTickerData(t))
                 /\ ftrace' = Append(ftrace, Event("fail", fidx, t, NoInfo, msg))
    /\ UNCHANGED <<fIn, fpeers, fret, peersVars, cmpVars,
                   parseVars, graphVars>>

\* lines 125-126: time.sleep(120)
FetchBackoff ==
    /\ fpc = "backoff"
    /\ ftrace' = Append(ftrace, Event("sleep 120", fidx, all_tickers[fidx], NoInfo, << >>))
    /\ fpc' = "retry"
    /\ UNCHANGED <<fIn, fpeers, fidx, fresults, finflight, fret, peersVars, cmpVars,
                   parseVars, graphVars>>

\* lines 129-130: the second lookup of all_tickers[idx] starts
FetchStartRetry ==
    /\ fpc = "retry"
    /\ finflight' = finflight + 1
    /\ fpc' = "in retry"
    /\ ftrace' = Append(ftrace, Event("retry", fidx, all_tickers[fidx], NoInfo, << >>))
    /\ UNCHANGED <<fIn, fpeers, fidx, fresults, fret, peersVars, cmpVars,
                   parseVars, graphVars>>

\* lines 130-132: the retry returns info
FetchRetryOk ==
    /\ fpc = "in retry"
    /\ \E info \in FetchInfos :
        LET t == all_tickers[fidx]
        IN  /\ fresults' = Put(fresults, t, ParseTickerInfo(t, info))
            /\ ftrace' = Append(ftrace, Event("retry ok", fidx, t, info, << >>))
    /\ finflight' = finflight - 1
    /\ fpc' = "lookup"
    /\ fidx' = fidx + 1
    /\ UNCHANGED <<fIn, fpeers, fret, peersVars, cmpVars,
                   parseVars, graphVars>>

\* lines 133-135: the retry raises, whatever it raises
FetchRetryRaise ==
    /\ fpc = "in retry"
    /\ \E msg \in {<<"HTTP", "Error", "429">>} \cup OtherMsgs :
        LET t == all_tickers[fidx]
        IN  /\ fresults' = Put(fresults, t, GetEmptyTickerData(t))
            /\ ftrace' = Append(ftrace, Event("retry fail", fidx, t, NoInfo, msg))
    /\ finflight' = finflight - 1
    /\ fpc' = "lookup"
    /\ fidx' = fidx + 1
    /\ UNCHANGED <<fIn, fpeers, fret, peersVars, cmpVars,
                   parseVars, graphVars>>

\* lines 140-148
FetchReturn ==
    /\ fpc = "lookup" /\ fidx > Len(all_tickers)
    /\ fret' = [called |-> TRUE, snapshot |-> Organize(fIn.ticker, fpeers, fresults)]
    /\ fpc' = "returned"
    /\ ftrace' = Append(ftrace, Event("return", 0, fIn.ticker, NoInfo, << >>))
    /\ UNCHANGED <<fIn, fpeers, fidx, fresults, finflight, peersVars, cmpVars,
                   parseVars, graphVars>>

FetchNext ==
    \/ FetchGetPeers
    \/ FetchStartLookup
    \/ FetchLookupOk
    \/ FetchPace
    \/ FetchLookupRaise
    \/ FetchBackoff
    \/ FetchStartRetry
    \/ FetchRetryOk
    \/ FetchRetryRaise
    \/ FetchReturn

SpecFetch == FetchInit /\ [][FetchNext]_vars

----------------------------------------------------------------------------
(* SpecInterrupt: fetch_market_data with the user pressing Ctrl-C.  A        *)
(* KeyboardInterrupt is no Exception: `except Exception` (line 123) lets it  *)
(* pass, a bare `except:` (lines 73, 133) catches it.                        *)

\* where a KeyboardInterrupt leaves fetch_market_data: get_peers' llm.invoke
\* (line 58), between two statements of the loop, the first lookup (line
\* 114), time.sleep(15) (line 122) and time.sleep(120) (line 126).  It
\* reaches main.py's handler (lines 245-247), which breaks the loop
FetchInterrupt ==
    /\ fpc \in {"start", "lookup", "in lookup", "pace", "backoff", "retry"}
    /\ fpc' = "interrupted"
    /\ finflight' = 0
    /\ ftrace' = Append(ftrace, Event("interrupt", fidx, fIn.ticker, NoInfo, << >>))
    /\ UNCHANGED <<fIn, fpeers, fidx, fresults, fret, peersVars, cmpVars,
                   parseVars, graphVars>>

\* lines 60-75: the interrupt arrives while get_peers parses the response;
\* the bare except of line 73 catches it and the fallback is returned
FetchInterruptInParse ==
    /\ fpc = "start"
    /\ GetLlmOk(fIn.model) /\ fIn.llm.k = "ok"
    /\ fpc' = "lookup"
    /\ fpeers' = FALLBACK_PEERS
    /\ fidx' = 1
    /\ ftrace' = Append(ftrace, Event("interrupt", 0, fIn.ticker, NoInfo, << >>))
    /\ UNCHANGED <<fIn, fresults, finflight, fret, peersVars, cmpVars,
                   parseVars, graphVars>>

\* lines 128-135: the interrupt arrives during the retry; the bare except of
\* line 133 catches it, the empty record is stored and the loop goes on
FetchInterruptInRetry ==
    /\ fpc = "in retry"
    /\ LET t == all_tickers[fidx]
       IN  /\ fresults' = Put(fresults, t, GetEmptyTickerData(t))
           /\ ftrace' = Append(ftrace, Event("interrupt", fidx, t, NoInfo, << >>))
    /\ finflight' = finflight - 1
    /\ fpc' = "lookup"
    /\ fidx' = fidx + 1
    /\ UNCHANGED <<fIn, fpeers, fret, peersVars, cmpVars,
                   parseVars, graphVars>>

InterruptNext ==
    \/ FetchNext
    \/ FetchInterrupt
    \/ FetchInterruptInParse
    \/ FetchInterruptInRetry

SpecInterrupt == FetchInit /\ [][InterruptNext]_vars

----------------------------------------------------------------------------
(* main.py: the graph of create_graph and the nodes                          *)
(*                                                                           *)
(* A field of the state holds a text: << >> is the empty string '', <<x>>   *)
(* a text x (for market_data, x is the comparison report).                   *)

Nodes == {"research", "fundamentalist", "quant", "strategist"}

\* line 172
EntryPoint == "research"

\* the synthesis wired to the ingestion instead of to the quant node
EdgesNoFanIn ==
    {<<"research", "fundamentalist">>, <<"research", "quant">>,
     <<"fundamentalist", "strategist">>, <<"research", "strategist">>}

\* lines 175-180
Edges ==
    {<<"research", "fundamentalist">>, <<"research", "quant">>,
     <<"fundamentalist", "strategist">>, <<"quant", "strategist">>}

\* the nodes a finished superstep triggers: every node with an edge from one
\* of the nodes that ran in it (none: the run ends, line 183)
Triggered(ran) == {n \in Nodes : \E m \in ran : <<m, n>> \in Edges}

\* lines 224-230
InitialState(ticker) ==
    [ticker |-> ticker, market_data |-> << >>, fundamentalist_analysis |-> << >>,
     quant_analysis |-> << >>, final_report |-> << >>]

NoUpdate == [key |-> "none", val |-> << >>]

\* the field a node returns (lines 45, 77, 109, 147)
FieldOfQuantOverwrites(n) ==
    CASE n = "research"       -> "market_data"
      [] n = "fundamentalist" -> "fundamentalist_analysis"
      [] n = "quant"          -> "market_data"
      [] n = "strategist"     -> "final_report"

FieldOf(n) ==
    CASE n = "research"       -> "market_data"
      [] n = "fundamentalist" -> "fundamentalist_analysis"
      [] n = "quant"          -> "quant_analysis"
      [] n = "strategist"     -> "final_report"

\* a merge that keeps the update of one node of the superstep only
MergeOne(st, ran, ret) ==
    LET n == IF "quant" \in ran THEN "quant" ELSE CHOOSE x \in ran : TRUE
    IN  [f \in DOMAIN st |-> IF ret[n].key = f THEN ret[n].val ELSE st[f]]

\* the runner merges the partial updates of the nodes of a superstep
Merge(st, ran, ret) ==
    [f \in DOMAIN st |->
        IF \E n \in ran : ret[n].key = f
        THEN ret[CHOOSE n \in ran : ret[n].key = f].val
        ELSE st[f]]

\* a runner that treats a node that raised like one that returned
StepOverIgnoringFailure(ran, st) == \A n \in ran : st[n] \in {"done", "failed"}

\* a superstep is over when each of its nodes has returned
StepOver(ran, st) == \A n \in ran : st[n] = "done"

\* lines 98-148 in one piece: get_peers, then the loop, given how the pass
\* for each list position ends
fetch_market_data(ticker, model, llm, outs) ==
    LET r == GetPeers(model, llm)
    IN  IF r.raised # "none" THEN [raised |-> r.raised, snapshot |-> NotCalled]
        ELSE LET all == AllTickers(ticker, r.peers)
             IN  [raised   |-> "none",
                  snapshot |-> Organize(ticker, r.peers, ResultsAfter(all, outs, Len(all)))]

\* lines 23-45
research_node(st, model, llm, outs) ==
    LET market_data_dict == fetch_market_data(st.ticker, model, llm, outs)
        calls == IF GetLlmOk(model) THEN 1 ELSE 0
        built == GetLlmBuilds(model)
    IN  IF market_data_dict.raised # "none"
        THEN [raised |-> market_data_dict.raised, update |-> NoUpdate,
              calls |-> calls, built |-> built]
        ELSE LET comparison == calculate_peer_comparison(st.ticker, market_data_dict.snapshot)
             IN  IF comparison.raised # "none"
                 THEN [raised |-> comparison.raised, update |-> NoUpdate,
                       calls |-> calls, built |-> built]
                 ELSE [raised |-> "none",
                       update |-> [key |-> "market_data", val |-> <<comparison>>],
                       calls  |-> calls,
                       built  |-> built]

\* lines 48-77, 80-109, 112-147: get_llm(), llm.invoke(prompt), the content
\* returned under the node's own key; calls counts the llm.invoke calls made
llm_node(n, model, llm) ==
    IF ~GetLlmOk(model) THEN [raised |-> "ValueError", update |-> NoUpdate, calls |-> 0,
          built |-> GetLlmBuilds(model)]
    ELSE IF llm.k = "raise" THEN [raised |-> "LLMError", update |-> NoUpdate, calls |-> 1,
          built |-> GetLlmBuilds(model)]
    ELSE [raised |-> "none", update |-> [key |-> FieldOf(n), val |-> llm.text], calls |-> 1,
          built |-> GetLlmBuilds(model)]

\* line 212: input(...).strip().upper(), on the lines typed here
Normalize(raw) ==
    CASE raw = "quit"  -> "QUIT"
      [] raw = " Exit" -> "EXIT"
      [] raw = "q"     -> "Q"
      [] raw = "  "    -> ""
      [] raw = "aapl"  -> "AAPL"
      [] raw = "spy "  -> "SPY"
      [] OTHER         -> raw

RawInputs == {"quit", " Exit", "q", "", "  ", "aapl", "spy "}

\* line 214
ExitWords == {"QUIT", "EXIT", "Q"}

\* what a completion call of an analysis or synthesis node does
Texts == {<< >>, <<"memo A">>, <<"memo B">>}
NodeLlmOutcomes == {[k |-> "raise", text |-> << >>]} \cup {[k |-> "ok", text |-> t] : t \in Texts}

\* what the ingestion node meets: the completion of get_peers and the end of
\* the pass for each of the 4 list positions
GraphPeerLlm ==
    {LlmRaise, [k |-> "ok", resp |-> [text |-> TRUE, expr |-> Prose]],
     [k |-> "ok", resp |-> [text |-> TRUE, expr |->
        [k |-> "list", b |-> << >>,
         a |-> <<[ty |-> "str", txt |-> "msft"], [ty |-> "str", txt |-> "Spy"],
                 [ty |-> "int", txt |-> "7"]>>]]]}

GraphInfos ==
    {Info(Num(150000), Absent, Num(2500), Num(30000), Absent, Num(2500), Num(40000)),
     Info(Num(140000), Absent, Null, Num(25000), Absent, Null, Num(5000))}

GraphOuts == [1..4 -> OutcomesOf(GraphInfos)]

----------------------------------------------------------------------------
(* Spec: run_analysis, the loop that reads a symbol and runs the graph *)

Init ==
    /\ LLM_MODEL \in Models
    /\ cli = "prompt"
    /\ run = 0
    /\ state = InitialState("")
    /\ nodeSt = [n \in Nodes |-> "idle"]
    /\ nodeRead = [n \in Nodes |-> InitialState("")]
    /\ nodeRet = [n \in Nodes |-> NoUpdate]
    /\ step = 0 /\ tasks = {} /\ todo = {}
    /\ order = << >>
    /\ output = << >>
    /\ nexec = [n \in Nodes |-> 0]
    /\ ncalls = [n \in Nodes |-> 0]
    /\ earlier = << >>
    /\ nclients = 0
    /\ nodeExc = [n \in Nodes |-> "none"]
    /\ IdlePeers /\ IdleCompare /\ IdleParse /\ IdleFetch

\* lines 212-216: an exit word ends the loop
CliQuit ==
    /\ cli = "prompt"
    /\ \E raw \in RawInputs : Normalize(raw) \in ExitWords
    /\ cli' = "exited"
    /\ UNCHANGED <<LLM_MODEL, run, state, nodeSt, nodeRead, nodeRet, step, tasks, todo,
                   order, output, nexec, ncalls, earlier, nclients, nodeExc, peersVars, cmpVars,
                   parseVars, fetchVars>>

\* lines 218-220: an empty line is refused and the loop asks again
CliEmpty ==
    /\ cli = "prompt"
    /\ \E raw \in RawInputs : Normalize(raw) = ""
    /\ UNCHANGED vars

\* a run that starts on the state the run before it left, with the new ticker
CliStartKeepsState ==
    /\ cli = "prompt" /\ run < MaxRuns
    /\ \E raw \in RawInputs :
        LET ticker == Normalize(raw)
        IN  /\ ticker \notin ExitWords /\ ticker # ""
            /\ state' = [state EXCEPT !.ticker = ticker]
    /\ cli' = "invoke"
    /\ run' = run + 1
    /\ nodeSt' = [n \in Nodes |-> "idle"]
    /\ nodeRead' = [n \in Nodes |-> InitialState("")]
    /\ nodeRet' = [n \in Nodes |-> NoUpdate]
    /\ step' = 1 /\ tasks' = {EntryPoint} /\ todo' = {EntryPoint}
    /\ order' = << >>
    /\ output' = << >>
    /\ nexec' = [n \in Nodes |-> 0]
    /\ ncalls' = [n \in Nodes |-> 0]
    /\ earlier' = earlier \o [k \in 1..Len(output) |-> output[k].kind]
    /\ nodeExc' = [n \in Nodes |-> "none"]
    /\ UNCHANGED <<LLM_MODEL, nclients, peersVars, cmpVars, parseVars, fetchVars>>

\* lines 222-236: a fresh state, and graph.invoke starts at the entry point
CliStart ==
    /\ cli = "prompt" /\ run < MaxRuns
    /\ \E raw \in RawInputs :
        LET ticker == Normalize(raw)
        IN  /\ ticker \notin ExitWords /\ ticker # ""
            /\ state' = InitialState(ticker)
    /\ cli' = "invoke"
    /\ run' = run + 1
    /\ nodeSt' = [n \in Nodes |-> "idle"]
    /\ nodeRead' = [n \in Nodes |-> InitialState("")]
    /\ nodeRet' = [n \in Nodes |-> NoUpdate]
    /\ step' = 1 /\ tasks' = {EntryPoint} /\ todo' = {EntryPoint}
    /\ order' = << >>
    /\ output' = << >>
    /\ nexec' = [n \in Nodes |-> 0]
    /\ ncalls' = [n \in Nodes |-> 0]
    /\ earlier' = earlier \o [k \in 1..Len(output) |-> output[k].kind]
    /\ nodeExc' = [n \in Nodes |-> "none"]
    /\ UNCHANGED <<LLM_MODEL, nclients, peersVars, cmpVars,
                   parseVars, fetchVars>>

\* the runner starts a node of the superstep on the state as it stands
NodeStart(n) ==
    /\ cli = "invoke" /\ n \in todo
    /\ todo' = todo \ {n}
    /\ nodeSt' = [nodeSt EXCEPT ![n] = "running"]
    /\ nodeRead' = [nodeRead EXCEPT ![n] = state]
    /\ nexec' = [nexec EXCEPT ![n] = @ + 1]
    /\ UNCHANGED <<LLM_MODEL, cli, run, state, nodeRet, step, tasks, order, output,
                   ncalls, earlier, nclients, nodeExc, peersVars, cmpVars,
                   parseVars, fetchVars>>

\* a running node returns its update or raises
NodeEnd(n, res) ==
    /\ IF res.raised = "none"
       THEN /\ nodeSt' = [nodeSt EXCEPT ![n] = "done"]
            /\ nodeRet' = [nodeRet EXCEPT ![n] = res.update]
            /\ order' = Append(order, n)
       ELSE /\ nodeSt' = [nodeSt EXCEPT ![n] = "failed"]
            /\ UNCHANGED <<nodeRet, order>>
    /\ ncalls' = [ncalls EXCEPT ![n] = @ + res.calls]
    /\ nclients' = nclients + res.built
    /\ nodeExc' = [nodeExc EXCEPT ![n] = res.raised]
    /\ UNCHANGED <<LLM_MODEL, cli, run, state, nodeRead, step, tasks, todo, output,
                   nexec, earlier, peersVars, cmpVars,
                   parseVars, fetchVars>>

ResearchEnd ==
    /\ cli = "invoke" /\ nodeSt["research"] = "running"
    /\ \E llm \in GraphPeerLlm, outs \in GraphOuts :
          NodeEnd("research", research_node(nodeRead["research"], LLM_MODEL, llm, outs))

AnalystEnd(n) ==
    /\ cli = "invoke" /\ nodeSt[n] = "running"
    /\ \E llm \in NodeLlmOutcomes : NodeEnd(n, llm_node(n, LLM_MODEL, llm))

\* every node of the superstep has returned: the updates are merged and the
\* nodes they trigger make the next superstep; with none, graph.invoke returns
SuperstepEnd ==
    /\ cli = "invoke" /\ todo = {} /\ StepOver(tasks, nodeSt)
    /\ state' = Merge(state, tasks, nodeRet)
    /\ LET next == Triggered(tasks)
       IN  /\ tasks' = next /\ todo' = next
           /\ IF next = {} THEN cli' = "print" /\ step' = step
              ELSE cli' = "invoke" /\ step' = step + 1
    /\ UNCHANGED <<LLM_MODEL, run, nodeSt, nodeRead, nodeRet, order, output,
                   nexec, ncalls, earlier, nclients, nodeExc, peersVars, cmpVars,
                   parseVars, fetchVars>>

\* a failure of the run that ends the loop instead of returning to the prompt
GraphRaiseExits ==
    /\ cli = "invoke"
    /\ \E n \in tasks : nodeSt[n] = "failed"
    /\ \A n \in tasks : nodeSt[n] # "running"
    /\ cli' = "exited"
    /\ todo' = {}
    /\ output' = Append(output, [kind |-> "error", text |-> << >>])
    /\ UNCHANGED <<LLM_MODEL, run, state, nodeSt, nodeRead, nodeRet, step, tasks, order,
                   nexec, ncalls, earlier, nclients, nodeExc, peersVars, cmpVars, parseVars, fetchVars>>

\* a node raised: once no node is running any more, nodes not started are
\* dropped, graph.invoke raises and lines 248-250 print the error
GraphRaise ==
    /\ cli = "invoke"
    /\ \E n \in tasks : nodeSt[n] = "failed"
    /\ \A n \in tasks : nodeSt[n] # "running"
    /\ cli' = "prompt"
    /\ todo' = {}
    /\ output' = Append(output, [kind |-> "error", text |-> << >>])
    /\ UNCHANGED <<LLM_MODEL, run, state, nodeSt, nodeRead, nodeRet, step, tasks, order,
                   nexec, ncalls, earlier, nclients, nodeExc, peersVars, cmpVars,
                   parseVars, fetchVars>>

\* lines 238-243
PrintReport ==
    /\ cli = "print"
    /\ output' = Append(output, [kind |-> "report", text |-> state.final_report])
    /\ cli' = "prompt"
    /\ UNCHANGED <<LLM_MODEL, run, state, nodeSt, nodeRead, nodeRet, step, tasks, todo,
                   order, nexec, ncalls, earlier, nclients, nodeExc, peersVars, cmpVars,
                   parseVars, fetchVars>>

Next ==
    \/ CliQuit
    \/ CliEmpty
    \/ CliStart
    \/ \E n \in Nodes : NodeStart(n)
    \/ ResearchEnd
    \/ \E n \in Nodes \ {"research"} : AnalystEnd(n)
    \/ SuperstepEnd
    \/ GraphRaise
    \/ PrintReport

Spec == Init /\ [][Next]_vars

\* the ends of the four passes of the fetch loop, the three peers alike
LiveOuts == {o \in GraphOuts : o[3] = o[2] /\ o[4] = o[2]}

\* what research_node returns or raises on those, for each ticker and model
LiveResults ==
    {[ticker |-> t, model |-> md,
      res    |-> research_node(InitialState(t), md, llm, outs)] :
        t \in Tickers, md \in Models, llm \in GraphPeerLlm, outs \in LiveOuts}

\* ResearchEnd on those
ResearchEndLive ==
    /\ cli = "invoke" /\ nodeSt["research"] = "running"
    /\ \E r \in LiveResults :
          /\ r.ticker = nodeRead["research"].ticker
          /\ r.model = LLM_MODEL
          /\ NodeEnd("research", r.res)

\* what happens in a run without the user: the runner starts every node of
\* a superstep, a started node returns or raises, graph.invoke returns or
\* raises, and run_analysis prints
RunStep ==
    \/ \E n \in Nodes : NodeStart(n)
    \/ ResearchEndLive
    \/ \E n \in Nodes \ {"research"} : AnalystEnd(n)
    \/ SuperstepEnd
    \/ GraphRaise
    \/ PrintReport

NextLive ==
    \/ CliQuit
    \/ CliEmpty
    \/ CliStart
    \/ RunStep

\* the same program with a run that is never left standing, while the user
\* may stay at the prompt for ever
SpecLive == Init /\ [][NextLive]_vars /\ WF_vars(RunStep)

----------------------------------------------------------------------------
(* Claims about get_peers and calculate_peer_comparison *)

\* the completion text is a literal list or tuple display of exactly 3 elements
IsLiteralSeq3(resp) ==
    resp.text /\ resp.expr.k \in {"list", "tuple"} /\ Len(resp.expr.a) = 3

\* C8: whenever get_peers returns, it returns the 3 elements upper-cased in
\* order if the completion is a literal sequence of exactly 3 elements, and
\* the fallback <<"SPY", "QQQ", "DIA">> for every other completion.
C8_LiteralOrFallback ==
    (pOut.called /\ pOut.result.raised = "none") =>
        LET resp == pIn.llm.resp
        IN  IF IsLiteralSeq3(resp)
            THEN pOut.result.peers = [i \in 1..3 |-> Upper(resp.expr.a[i].txt)]
            ELSE pOut.result.peers = FALLBACK_PEERS

\* C10: calculate_peer_comparison returns a report for every snapshot
\* fetch_market_data can build: it raises nothing, whatever keys the provider
\* records lack or hold as null and whatever lookups failed, and it never
\* divides by zero.
C10_CompareTotal ==
    cOut.called => cOut.report.raised = "none"

\* the provider reported a number under the key
Reported(key) == iIn.info[key].tag = "num"

\* C14: in the record _parse_ticker_info builds, pe, peg and pb are present
\* exactly when the provider reported a number for them (for pe the trailing
\* value, else the forward value) and absent exactly when the value is
\* missing or null; a reported 0 stays the number 0 and a value that was not
\* reported is never turned into 0.
C14_PresentIffReported ==
    iOut.called =>
        /\ iOut.record.peg.tag = "num" <=> Reported("pegRatio")
        /\ iOut.record.pb.tag = "num" <=> Reported("priceToBook")
        /\ iOut.record.pe.tag = "num" <=> (Reported("trailingPE") \/ Reported("forwardPE"))
        /\ Reported("trailingPE") => iOut.record.pe = Num(Round2(iIn.info.trailingPE.v))
        /\ iIn.info.pegRatio = Num(0) => iOut.record.peg = Num(0)
        /\ iIn.info.priceToBook = Num(0) => iOut.record.pb = Num(0)
        /\ \A k \in Ratios : iOut.record[k].tag \in {"num", "none"}

\* the peers of the snapshot that hold a number for the ratio k
HoldsNumber(k) == {p \in DOMAIN cIn.market_data.peers : cIn.market_data.peers[p][k].tag = "num"}

\* C11: for each ratio the report holds a numeric comparison exactly when the
\* target's value and the peer average are both present, and "Data not
\* available" exactly when the target's value is absent or no peer holds a
\* value; a present 0, of the target or of the average, counts as present.
C11_PresentMeansCompared ==
    (cOut.called /\ cOut.report.raised = "none") =>
        \A k \in Ratios :
            /\ cOut.report[k].kind \in {"numeric", "Data not available"}
            /\ cOut.report[k].kind = "numeric" <=>
                  (cIn.market_data.main_ticker[k].tag = "num" /\ HoldsNumber(k) # {})

\* the sum of the ratio k over the peers in S, one peer after the other
RECURSIVE Total(_, _)
Total(S, k) ==
    IF S = {} THEN 0
    ELSE LET p == CHOOSE x \in S : TRUE
         IN  cIn.market_data.peers[p][k].v + Total(S \ {p}, k)

\* C12: the peer average of a ratio is the arithmetic mean over exactly the
\* peers that hold a value for it: a peer without one adds nothing to the sum
\* and nothing to the count, and the average is absent when no peer holds one.
C12_MeanOverPresent ==
    cOut.called =>
        \A k \in Ratios :
            IF HoldsNumber(k) = {}
            THEN cOut.avg[k].tag = "none"
            ELSE /\ cOut.avg[k].tag = "num"
                 /\ cOut.avg[k].sum = Total(HoldsNumber(k), k)
                 /\ cOut.avg[k].n = Cardinality(HoldsNumber(k))
                 /\ cOut.report[k].kind = "numeric" /\ cOut.report[k].raised = "none" =>
                       /\ cOut.report[k].sum = Total(HoldsNumber(k), k)
                       /\ cOut.report[k].n = Cardinality(HoldsNumber(k))

\* two peers hold a P/E, 35.0 and 25.0, a third holds none: the mean is 60.0 / 2
C12_Witness ==
    /\ cOut.called
    /\ cOut.report.raised = "none"
    /\ Cardinality(DOMAIN cIn.market_data.peers) = 3
    /\ Cardinality(HoldsNumber("pe")) = 2
    /\ cOut.avg["pe"] = [tag |-> "num", sum |-> 6000, n |-> 2]

\* the sign of ((target - avg) / avg) * 100 for avg = sum / n, sum # 0
DeviationPositive(target, sum, n) ==
    IF sum > 0 THEN target * n > sum ELSE target * n < sum

\* C13: a numeric comparison is labelled PREMIUM when the signed percentage
\* deviation of the target from the peer average is above 0 and DISCOUNT
\* when it is 0 or below; a target of 30.0 against peers of 35.0 and 25.0
\* deviates by exactly 0 and is labelled DISCOUNT.
C13_LabelBySign ==
    cOut.called =>
        \A k \in Ratios :
            LET line == cOut.report[k]
            IN  (line.kind = "numeric" /\ line.raised = "none") =>
                    /\ line.label \in {"(PREMIUM)", "(DISCOUNT)"}
                    /\ line.label = "(PREMIUM)" <=> DeviationPositive(line.main, line.sum, line.n)
                    /\ (line.main * line.n = line.sum) => line.label = "(DISCOUNT)"

\* the target's P/E is 30.0, the peers' are 35.0 and 25.0
C13_Witness ==
    /\ cOut.called
    /\ cOut.report.raised = "none"
    /\ cIn.market_data.main_ticker.pe = Num(3000)
    /\ {cIn.market_data.peers[p].pe : p \in DOMAIN cIn.market_data.peers}
            = {Num(3500), Num(2500), None}
    /\ cOut.report.pe.kind = "numeric"
    /\ cOut.report.pe.label = "(DISCOUNT)"

\* C23: whenever the report holds a numeric comparison for a ratio, the
\* label is PREMIUM exactly when the target's value is above the peer
\* average sum / n and DISCOUNT exactly when it is at or below it, for a
\* positive and for a negative average alike.
C23_PremiumIffAbove ==
    (cOut.called /\ cOut.report.raised = "none") =>
        \A k \in Ratios :
            LET line == cOut.report[k]
            IN  line.kind = "numeric" =>
                    /\ line.label = "(PREMIUM)" <=> line.main * line.n > line.sum
                    /\ line.label = "(DISCOUNT)" <=> line.main * line.n <= line.sum

----------------------------------------------------------------------------
(* Claims about fetch_market_data, read off ftrace *)

TracePos == 1..Len(ftrace)

LookupEvs  == {"lookup", "retry"}
OutcomeEvs == {"ok", "fail", "retry ok", "retry fail"}

\* the event that ended the pass of the loop at list position i
FinalOutcome(i) ==
    ftrace[CHOOSE k \in TracePos : ftrace[k].i = i /\ ftrace[k].ev \in OutcomeEvs]

\* the record the returned snapshot holds for list position i
SnapshotRecord(i) ==
    IF i = 1 THEN fret.snapshot.main_ticker
    ELSE fret.snapshot.peers[fpeers[i - 1]]

\* C3: once the lookups have begun fetch_market_data never raises, and the
\* snapshot it returns holds, for the target and for each peer, the parsed
\* data of the entity's lookup if that lookup (or its retry) succeeded and
\* the error-tagged empty record if it failed for good.
C3_BatchCompletes ==
    /\ (\E k \in TracePos : ftrace[k].ev = "lookup") => fpc # "raised"
    /\ fpc = "returned" =>
          \A i \in 1..Len(all_tickers) :
              LET e == FinalOutcome(i)
              IN  IF e.ev \in {"ok", "retry ok"}
                  THEN SnapshotRecord(i) = ParseTickerInfo(e.sym, e.info)
                  ELSE SnapshotRecord(i) = GetEmptyTickerData(e.sym)

\* the message holds "429" or "Too Many Requests"
ThrottlingSignal(msg) ==
    \/ \E k \in 1..Len(msg) : msg[k] = "429"
    \/ \E k \in 1..(Len(msg) - 2) :
          msg[k] = "Too" /\ msg[k + 1] = "Many" /\ msg[k + 2] = "Requests"

\* C4: a first lookup that fails is retried if and only if its message is a
\* throttling signal; the retry comes once, right after the 120 s wait that
\* follows the failure; any other failure leaves the empty record at once,
\* with no wait and no retry; no list position is looked up more than twice.
C4_RetryPolicy ==
    /\ \A k \in TracePos :
          LET e == ftrace[k]
          IN  /\ e.ev \in {"throttled", "fail"} =>
                    (e.ev = "throttled" <=> ThrottlingSignal(e.msg))
              /\ e.ev = "retry" =>
                    /\ k > 2
                    /\ ftrace[k - 1].ev = "sleep 120"
                    /\ ftrace[k - 2].ev = "throttled" /\ ftrace[k - 2].i = e.i
              /\ e.ev = "sleep 120" => k > 1 /\ ftrace[k - 1].ev = "throttled"
              /\ (e.ev = "throttled" /\ k + 1 <= Len(ftrace)) =>
                    ftrace[k + 1].ev = "sleep 120"
              /\ (e.ev = "throttled" /\ k + 2 <= Len(ftrace)) =>
                    ftrace[k + 2].ev = "retry" /\ ftrace[k + 2].i = e.i
              /\ (e.ev = "fail" /\ k + 1 <= Len(ftrace)) =>
                    \/ ftrace[k + 1].ev = "return"
                    \/ ftrace[k + 1].ev = "lookup" /\ ftrace[k + 1].i = e.i + 1
              /\ (e.ev = "fail" /\ k = Len(ftrace)) =>
                    fresults[e.sym] = GetEmptyTickerData(e.sym)
    /\ \A i \in 1..4 :
          /\ Cardinality({k \in TracePos : ftrace[k].i = i /\ ftrace[k].ev \in LookupEvs}) <= 2
          /\ Cardinality({k \in TracePos : ftrace[k].i = i /\ ftrace[k].ev = "retry"}) <= 1

C4_Witness ==
    /\ fpc = "returned"
    /\ \E k \in TracePos : ftrace[k].ev = "retry ok"
    /\ \E k \in TracePos : ftrace[k].ev = "retry fail"
    /\ \E k \in TracePos : ftrace[k].ev = "fail"

\* C5: get_peers is called once, before any lookup; the first lookups come in
\* the order of [symbol] + peers, each after the outcome of the entity before
\* it has been recorded; at most one lookup is in progress at any time.
C5_Sequential ==
    /\ finflight <= 1
    /\ \A k \in TracePos :
          LET e == ftrace[k]
          IN  /\ (e.ev \in {"get_peers", "get_peers raised"}) <=> k = 1
              /\ e.ev = "lookup" =>
                    /\ e.sym = (<<fIn.ticker>> \o fpeers)[e.i]
                    /\ \A j \in 1..(e.i - 1) :
                          \E m \in 1..(k - 1) :
                              ftrace[m].i = j /\ ftrace[m].ev \in OutcomeEvs
                    /\ \A m \in 1..(k - 1) : ftrace[m].ev = "lookup" => ftrace[m].i < e.i
              /\ e.ev \in LookupEvs =>
                    \A m \in 1..(k - 1) :
                        ftrace[m].ev \in LookupEvs =>
                            \E n \in (m + 1)..(k - 1) :
                                ftrace[n].ev \in OutcomeEvs \cup {"throttled"}
    /\ fpc = "returned" =>
          \A i \in 1..4 : \E k \in TracePos : ftrace[k].ev = "lookup" /\ ftrace[k].i = i

C5_Witness ==
    /\ fpc = "returned"
    /\ Cardinality({k \in TracePos : ftrace[k].ev = "lookup"}) = 4
    /\ \E k \in TracePos : ftrace[k].ev = "retry" /\ ftrace[k].i = 2

\* C6: between the first lookups of two consecutive entities there is always
\* a 15 s pacing delay, however the earlier entity's lookup ended, and there
\* is none after the last entity.
C6_PacingBetweenLookups ==
    /\ \A k1 \in TracePos, k2 \in TracePos :
          (/\ ftrace[k1].ev = "lookup" /\ ftrace[k2].ev = "lookup"
           /\ ftrace[k2].i = ftrace[k1].i + 1) =>
              \E j \in k1..k2 : ftrace[j].ev = "sleep 15"
    /\ \A k \in TracePos :
          ftrace[k].ev = "sleep 15" => ftrace[k].i < Len(all_tickers)

\* C9 as claimed: get_peers never raises; whatever the completion call does,
\* it hands fetch_market_data 3 symbols.
C9_NeverRaises ==
    /\ fpc # "raised"
    /\ fpc # "start" => Len(fpeers) = 3

\* C9 as amended: for every text the completion call returns get_peers
\* returns exactly 3 symbols and fetch_market_data goes on to look up all 4
\* entities; when the completion call fails, or get_llm rejects the model
\* selection, get_peers raises and fetch_market_data does no lookup.
C9_ThreePeersOrPropagate ==
    /\ fpc # "start" =>
          IF fIn.model \in {"ollama", "openai"} /\ fIn.llm.k = "ok"
          THEN fpc # "raised" /\ Len(fpeers) = 3
          ELSE /\ fpc = "raised"
               /\ \A k \in TracePos : ftrace[k].ev \notin LookupEvs
    /\ fpc = "returned" =>
          \A i \in 1..4 : \E k \in TracePos : ftrace[k].ev = "lookup" /\ ftrace[k].i = i

C9_Witness ==
    /\ fpc = "returned"
    /\ fIn.llm.resp.expr.k = "prose"
    /\ fpeers = <<"SPY", "QQQ", "DIA">>

\* the record the pass of the loop at list position i produced
OwnRecord(i) ==
    LET e == FinalOutcome(i)
    IN  IF e.ev \in {"ok", "retry ok"} THEN ParseTickerInfo(e.sym, e.info)
        ELSE GetEmptyTickerData(e.sym)

\* C24: in the returned snapshot the target's record is the outcome of the
\* first list position, the target's own lookup, and each peer's record is
\* the outcome of that peer's own list position, also when the peer list
\* names the target or a symbol twice: no later lookup of the same symbol
\* replaces a record; and the peers mapping holds 3 records, one per peer.
C24_OwnLookupKept ==
    fpc = "returned" =>
        /\ fret.snapshot.main_ticker = OwnRecord(1)
        /\ \A j \in 1..Len(fpeers) : fret.snapshot.peers[fpeers[j]] = OwnRecord(j + 1)
        /\ Len(fpeers) = 3
        /\ Cardinality(DOMAIN fret.snapshot.peers) = 3

\* C16: an interrupt of the user at any point of a run (peer discovery, a
\* lookup, the pacing delay, the throttle backoff, the retry lookup) aborts
\* the run: it is the last thing that happens in fetch_market_data, which
\* is left without a snapshot, and no lookup follows it.
C16_InterruptAborts ==
    \A k \in TracePos :
        ftrace[k].ev = "interrupt" =>
            /\ k = Len(ftrace)
            /\ fpc = "interrupted"
            /\ fret = NotCalled

----------------------------------------------------------------------------
(* Claims about the graph *)

Started(n) == nodeSt[n] # "idle"

\* C1: in every run, an analysis node starts only after research has
\* completed, and strategist starts only after fundamentalist and quant have
\* both completed, in whichever order they complete.
C1_ExecutionOrder ==
    /\ \A n \in {"fundamentalist", "quant"} :
          Started(n) => nodeSt["research"] = "done" /\ order[1] = "research"
    /\ Started("strategist") =>
          /\ nodeSt["fundamentalist"] = "done" /\ nodeSt["quant"] = "done"
          /\ {order[2], order[3]} = {"fundamentalist", "quant"}

C1_Witness ==
    /\ nodeSt["strategist"] = "running"
    /\ order = <<"research", "quant", "fundamentalist">>

\* C2 as claimed: whenever strategist runs, the fundamentalist_analysis and
\* quant_analysis it reads are non-empty.
C2_NonEmptyInputs ==
    Started("strategist") =>
        /\ nodeRead["strategist"].fundamentalist_analysis # << >>
        /\ nodeRead["strategist"].quant_analysis # << >>

\* C2 as amended: whenever strategist runs, the fundamentalist_analysis and
\* quant_analysis it reads are the texts the two analysis nodes returned
\* (non-empty whenever the texts their completion calls returned are), in
\* whichever order the two completed; and a node that runs reads the
\* market_data research returned, never a field whose producer has not
\* completed.
C2_SynthesisReadsBoth ==
    /\ Started("strategist") =>
          /\ nodeSt["fundamentalist"] = "done" /\ nodeSt["quant"] = "done"
          /\ nodeRet["fundamentalist"].key = "fundamentalist_analysis"
          /\ nodeRet["quant"].key = "quant_analysis"
          /\ nodeRead["strategist"].fundamentalist_analysis = nodeRet["fundamentalist"].val
          /\ nodeRead["strategist"].quant_analysis = nodeRet["quant"].val
    /\ \A n \in {"fundamentalist", "quant"} :
          Started(n) =>
              /\ nodeSt["research"] = "done"
              /\ nodeRet["research"].key = "market_data"
              /\ nodeRead[n].market_data = nodeRet["research"].val
              /\ nodeRead[n].market_data # << >>

C2_Witness ==
    /\ nodeSt["strategist"] = "done"
    /\ order = <<"research", "quant", "fundamentalist", "strategist">>
    /\ nodeRead["strategist"].fundamentalist_analysis = <<"memo A">>
    /\ nodeRead["strategist"].quant_analysis = <<"memo B">>

\* the nodes that depend on n, directly or through another node
Dependents(n) ==
    CASE n = "research"                  -> {"fundamentalist", "quant", "strategist"}
      [] n \in {"fundamentalist", "quant"} -> {"strategist"}
      [] OTHER                           -> {}

SomeFailed == \E n \in Nodes : nodeSt[n] = "failed"

\* C7: a node that raises is not caught in the graph.  While the run has a
\* failed node no node that depends on it has run and no report is printed;
\* the only way out of graph.invoke is the caller's handler, which prints the
\* error and asks for the next symbol; and the next run starts from a fresh
\* state, with every node idle.
C7_FailurePropagates ==
    /\ [](SomeFailed =>
            /\ cli \in {"invoke", "prompt", "exited"}
            /\ \A k \in 1..Len(output) : output[k].kind # "report"
            /\ \A n \in Nodes :
                  nodeSt[n] = "failed" => \A m \in Dependents(n) : nodeSt[m] = "idle"
            /\ state.final_report = << >>)
    /\ [][(SomeFailed /\ cli = "invoke" /\ cli' # "invoke") =>
            /\ cli' = "prompt"
            /\ output' = <<[kind |-> "error", text |-> << >>]>>
            /\ state' = state]_vars
    /\ [][(cli = "prompt" /\ cli' = "invoke") =>
            /\ \E t \in {"AAPL", "SPY"} : state' = InitialState(t)
            /\ \A n \in Nodes : nodeSt'[n] = "idle"]_vars

C7_Witness ==
    /\ cli = "prompt" /\ run = 1
    /\ nodeSt["quant"] = "failed" /\ nodeSt["fundamentalist"] = "done"
    /\ output = <<[kind |-> "error", text |-> << >>]>>

\* C15: a run that fails with a completion error or a configuration error
\* does not end run_analysis: the failure is caught at the top level, the
\* error message is printed and no report, and the loop is back at its
\* prompt, where the next symbol starts a run; the loop ends only at the
\* prompt, on an exit word.
C15_LoopSurvivesFailure ==
    /\ [][(cli = "invoke" /\ SomeFailed) => cli' \in {"invoke", "prompt"}]_vars
    /\ [][cli' = "exited" => (cli = "prompt" /\ output' = output)]_vars
    /\ []((cli = "prompt" /\ SomeFailed) =>
            /\ output = <<[kind |-> "error", text |-> << >>]>>
            /\ run < MaxRuns => ENABLED CliStart)
    /\ [](LLM_MODEL \notin Backends => cli # "print")

\* a second run is under way after the first one failed
C15_Witness ==
    /\ run = 2 /\ earlier = <<"error">>
    /\ cli = "invoke" /\ nodeSt["research"] = "done"

\* the fields of the run state that nodes produce
ProducedFields ==
    {"market_data", "fundamentalist_analysis", "quant_analysis", "final_report"}

\* C17: every run starts from a fresh state, with market_data,
\* fundamentalist_analysis, quant_analysis and final_report empty and ticker
\* the symbol just entered; research reads that state, and every non-empty
\* field a node reads was returned by a node that completed in the same run,
\* so nothing a node reads was produced in an earlier run.
C17_FreshRunState ==
    /\ [][(cli = "prompt" /\ cli' = "invoke") =>
            /\ state'.ticker \in {"AAPL", "SPY"}
            /\ \A f \in ProducedFields : state'[f] = << >>
            /\ DOMAIN state' = ProducedFields \cup {"ticker"}]_vars
    /\ [](Started("research") =>
            /\ nodeRead["research"].ticker = state.ticker
            /\ \A f \in ProducedFields : nodeRead["research"][f] = << >>)
    /\ [](\A n \in Nodes, f \in ProducedFields :
            (Started(n) /\ nodeRead[n][f] # << >>) =>
                \E p \in Nodes :
                    /\ nodeSt[p] = "done"
                    /\ nodeRet[p] = [key |-> f, val |-> nodeRead[n][f]])

\* the second run, after a first one that printed its report: strategist
\* has read the two analyses of this run
C17_Witness ==
    /\ run = 2 /\ earlier = <<"report">>
    /\ Started("strategist")
    /\ nodeRead["strategist"].fundamentalist_analysis = <<"memo A">>
    /\ nodeRead["strategist"].quant_analysis = <<"memo B">>

\* the node a field belongs to
Owner(f) ==
    CASE f = "market_data"             -> "research"
      [] f = "fundamentalist_analysis" -> "fundamentalist"
      [] f = "quant_analysis"          -> "quant"
      [] f = "final_report"            -> "strategist"

\* C19: within a run a field of the state changes only to the value its own
\* node returned, when that node has completed; a node returns an update of
\* its own field only; ticker never changes, and market_data never changes
\* once research has been merged, in whichever order the two analysis nodes
\* run and complete.
C19_OwnFieldOnly ==
    /\ [][cli = "invoke" => state'.ticker = state.ticker]_vars
    /\ [][(cli = "invoke" /\ step > 1) => state'.market_data = state.market_data]_vars
    /\ [][cli = "invoke" =>
            \A f \in ProducedFields :
                state'[f] # state[f] =>
                    /\ Owner(f) \in tasks
                    /\ nodeSt[Owner(f)] = "done"
                    /\ state'[f] = nodeRet[Owner(f)].val]_vars
    /\ [](\A n \in Nodes :
            /\ nodeSt[n] = "done" => nodeRet[n].key = CHOOSE f \in ProducedFields : Owner(f) = n
            /\ nodeSt[n] # "done" => nodeRet[n] = NoUpdate)

\* quant completed before fundamentalist, both updates are merged and
\* market_data is still what research returned
C19_Witness ==
    /\ cli = "invoke" /\ step = 3
    /\ order = <<"research", "quant", "fundamentalist">>
    /\ state.fundamentalist_analysis = <<"memo A">>
    /\ state.quant_analysis = <<"memo B">>
    /\ state.market_data = nodeRet["research"].val
    /\ state.market_data # << >>

\* the run has succeeded: graph.invoke returned and the report is printed
\* or about to be
Succeeded ==
    \/ cli = "print"
    \/ output = <<[kind |-> "report", text |-> state.final_report]>>

\* C20: in a successful run each of the four nodes has executed exactly
\* once, and fundamentalist, quant and strategist have each made exactly one
\* completion call; strategist in particular runs a single time after both
\* analysis nodes, not once per predecessor.  No node ever runs or calls
\* twice in a run.
C20_EachNodeOnce ==
    /\ \A n \in Nodes : nexec[n] <= 1 /\ ncalls[n] <= 1
    /\ Succeeded =>
          /\ \A n \in Nodes : nexec[n] = 1
          /\ \A n \in {"fundamentalist", "quant", "strategist"} : ncalls[n] = 1
          /\ Len(order) = 4
          /\ order[4] = "strategist"

C20_Witness ==
    /\ run = 1 /\ cli = "prompt"
    /\ output = <<[kind |-> "report", text |-> <<"memo B">>]>>
    /\ nexec = [n \in Nodes |-> 1]
    /\ ncalls = [n \in Nodes |-> 1]
    /\ order = <<"research", "fundamentalist", "quant", "strategist">>

\* C22: the LLM client is created once in the process and the same client
\* serves every completion call of every run: the number of clients
\* constructed never exceeds 1, however many completion calls and runs
\* there are.
C22_ClientBuiltOnce ==
    nclients <= 1

\* the phase of the current run, read off the runner: before research
\* starts, the superstep of research, that of the two analysis nodes, that
\* of strategist, and graph.invoke returned
Phase ==
    IF cli = "print" \/ \E k \in 1..Len(output) : output[k].kind = "report" THEN "DONE"
    ELSE IF step >= 3 THEN "SYNTHESIZING"
    ELSE IF step = 2 THEN "ANALYZING"
    ELSE IF step = 1 /\ Started("research") THEN "INGESTING"
    ELSE "PENDING"

PhaseRank ==
    CASE Phase = "PENDING"      -> 1
      [] Phase = "INGESTING"    -> 2
      [] Phase = "ANALYZING"    -> 3
      [] Phase = "SYNTHESIZING" -> 4
      [] Phase = "DONE"         -> 5

\* a completion invocation of the current run has failed: get_llm() raised
\* at its start or llm.invoke raised
CompletionFailed == \E n \in Nodes : nodeExc[n] \in {"ValueError", "LLMError"}

\* C21: within a run the phase stays or advances to the next of PENDING,
\* INGESTING, ANALYZING, SYNTHESIZING, DONE, never backwards and never past
\* a phase, and a new run starts at PENDING; every run in which no
\* completion call fails reaches DONE, with final_report what strategist
\* returned.
C21_RunTerminates ==
    /\ [][run' = run => PhaseRank' \in {PhaseRank, PhaseRank + 1}]_vars
    /\ [][run' # run => Phase' = "PENDING"]_vars
    /\ \A r \in 1..MaxRuns :
          (run = r /\ cli = "invoke") ~>
              (run = r /\ (\/ CompletionFailed
                           \/ /\ Phase = "DONE"
                              /\ nodeSt["strategist"] = "done"
                              /\ state.final_report = nodeRet["strategist"].val))

============================================================================
